---- MODULE Spec2Model ----
(***************************************************************************)
(* A model of app.py: the two Flask routes (index, search), the three      *)
(* recipe tiers (fetch_from_spoonacular, fetch_from_local_dataset and the  *)
(* hardcoded defaults) and get_recommended_recipes.                        *)
(*                                                                         *)
(* Python strings are sequences of one-character strings, so that split,   *)
(* strip, lower and the substring test `in` are computed, not assumed.     *)
(* A Python value that is either None or a list, or an exception that a    *)
(* call raised, is a record [kind, items, exc].                            *)
(***************************************************************************)
EXTENDS Integers, Sequences, FiniteSets, TLC

VARIABLES
    apiKey,       \* SPOONACULAR_API_KEY, fixed when the module is imported
    handler,      \* "idle", or the function whose call has just completed
    form,         \* request.form of the search request
    ingredients,  \* the ingredients string of the request
    lookup,       \* the service's answer to the findByIngredients call
    details,      \* the service's answers to the detail calls issued, in order
    store,        \* what reading local_recipes.json gave in this request
    sample,       \* the positions random.sample drew in this request
    external,     \* what fetch_from_spoonacular returned
    local,        \* what fetch_from_local_dataset returned
    recipes,      \* the list handed to render_template
    calls,        \* the tiers called in this request, in order
    raised        \* an exception left the handler

vars == <<apiKey, handler, form, ingredients, lookup, details, store, sample,
          external, local, recipes, calls, raised>>

-----------------------------------------------------------------------------
(* Bounds of the model *)

MaxStore == 8        \* records in local_recipes.json
MaxQueryLen == 2     \* characters of an enumerated ingredients string
MaxHits == 7         \* hits in a findByIngredients response
MaxMixedStore == 2   \* records of a store that mixes every kind of record

(* Constants of the program *)

TopN == 6            \* matching_recipes[:6]
SampleSize == 3      \* random.sample(all_recipes, 3)

-----------------------------------------------------------------------------
(* Python values *)

None == [kind |-> "none", items |-> <<>>, exc |-> ""]
List(s) == [kind |-> "list", items |-> s, exc |-> ""]
Raise(e) == [kind |-> "raised", items |-> <<>>, exc |-> e]
NotCalled == [kind |-> "uncalled", items |-> <<>>, exc |-> ""]

\* Python truthiness of a value that is None or a list: `not recipes`
Falsy(v) == v.kind = "none" \/ (v.kind = "list" /\ v.items = <<>>)

Min(a, b) == IF a < b THEN a ELSE b

-----------------------------------------------------------------------------
(* Strings *)

Whitespace == {" "}

LowerChar(c) == CASE c = "A" -> "a" [] c = "B" -> "b" [] OTHER -> c

\* str.lower()
lower(s) == [i \in 1..Len(s) |-> LowerChar(s[i])]

RECURSIVE lstrip(_)
lstrip(s) == IF s # <<>> /\ Head(s) \in Whitespace THEN lstrip(Tail(s)) ELSE s

RECURSIVE rstrip(_)
rstrip(s) ==
    IF s # <<>> /\ s[Len(s)] \in Whitespace
    THEN rstrip(SubSeq(s, 1, Len(s) - 1))
    ELSE s

\* str.strip()
strip(s) == rstrip(lstrip(s))

\* str.split(sep): one piece more than there are separators
RECURSIVE split(_, _)
split(s, sep) ==
    IF \A i \in 1..Len(s) : s[i] # sep
    THEN <<s>>
    ELSE LET k == CHOOSE i \in 1..Len(s) :
                      s[i] = sep /\ \A j \in 1..(i - 1) : s[j] # sep
         IN  <<SubSeq(s, 1, k - 1)>> \o split(SubSeq(s, k + 1, Len(s)), sep)

\* `sub in s` on strings
contains(s, sub) ==
    \E k \in 0..(Len(s) - Len(sub)) : SubSeq(s, k + 1, k + Len(sub)) = sub

-----------------------------------------------------------------------------
(* The records of local_recipes.json.  A record is a recipe with its list  *)
(* of ingredient strings (a recipe without the key has the empty list, as  *)
(* recipe.get('ingredients', []) gives), or it is malformed: not a JSON    *)
(* object, or with an ingredient that is not a string, so that .get or     *)
(* .lower() raises on it.                                                  *)

Recipe(ings) == [form |-> "recipe", ingredients |-> ings]
Malformed == [form |-> "malformed", ingredients |-> <<>>]

RecA == Recipe(<< <<"a">> >>)
RecB == Recipe(<< <<"a", "B">>, <<"a">> >>)
RecNoIngredients == Recipe(<<>>)

Missing == [status |-> "missing", records |-> <<>>]
Corrupt == [status |-> "corrupt", records |-> <<>>]
Loaded(rs) == [status |-> "loaded", records |-> rs]
Unread == [status |-> "unread", records |-> <<>>]

\* with open('local_recipes.json') ... json.load(file)
load(st) ==
    CASE st.status = "missing" -> Raise("FileNotFoundError")
      [] st.status = "corrupt" -> Raise("JSONDecodeError")
      [] OTHER -> List(st.records)

-----------------------------------------------------------------------------
(* Result records.  Every tier's records have the same shape here: where   *)
(* the record comes from, its position there, and its match_score when it  *)
(* has the key.                                                            *)

Item(origin, idx) == [origin |-> origin, idx |-> idx, scored |-> FALSE, match_score |-> 0]
Scored(idx, m) == [origin |-> "store", idx |-> idx, scored |-> TRUE, match_score |-> m]

get_default_recipes == << Item("default", 1) >>

get_default_recommendations ==
    << Item("default_rec", 1), Item("default_rec", 2), Item("default_rec", 3) >>

-----------------------------------------------------------------------------
(* fetch_from_local_dataset *)

\* [ing.strip().lower() for ing in ingredients.split(',')]
ingredient_list(ings) ==
    LET parts == split(ings, ",")
    IN  [i \in 1..Len(parts) |-> lower(strip(parts[i]))]

\* a slip: a term counts once for every ingredient it is found in
RECURSIVE sum_matches_per_ingredient(_, _)
sum_matches_per_ingredient(terms, r_ings) ==
    IF terms = <<>> THEN 0
    ELSE Cardinality({j \in 1..Len(r_ings) : contains(lower(r_ings[j]), Head(terms))})
         + sum_matches_per_ingredient(Tail(terms), r_ings)

\* sum(1 for ing in ingredient_list if any(ing in r_ing for r_ing in recipe_ingredients))
RECURSIVE sum_matches(_, _)
sum_matches(terms, r_ings) ==
    IF terms = <<>> THEN 0
    ELSE (IF \E j \in 1..Len(r_ings) : contains(lower(r_ings[j]), Head(terms))
          THEN 1 ELSE 0)
         + sum_matches(Tail(terms), r_ings)

\* a slip: matches >= 0
keeps_all(matches) == matches >= 0

\* if matches > 0
keeps(matches) == matches > 0

\* the for loop over all_recipes; a malformed record raises out of it
RECURSIVE scan(_, _, _, _)
scan(terms, rs, i, acc) ==
    IF i > Len(rs) THEN List(acc)
    ELSE IF rs[i].form = "malformed" THEN Raise("AttributeError")
    ELSE LET m == sum_matches(terms, rs[i].ingredients)
         IN  scan(terms, rs, i + 1,
                  IF keeps(m) THEN Append(acc, Scored(i, m)) ELSE acc)

\* key=lambda x: x.get('match_score', 0)
sort_key(r) == IF r.scored THEN r.match_score ELSE 0

\* a slip: an unstable sort, which puts r in front of the records it ties with
insert_before_ties(s, r) ==
    LET p == Cardinality({i \in 1..Len(s) : sort_key(s[i]) > sort_key(r)})
    IN  SubSeq(s, 1, p) \o <<r>> \o SubSeq(s, p + 1, Len(s))

\* where a stable descending sort puts r among the already sorted s:
\* behind every record whose key is not smaller
insert_desc(s, r) ==
    LET p == Cardinality({i \in 1..Len(s) : sort_key(s[i]) >= sort_key(r)})
    IN  SubSeq(s, 1, p) \o <<r>> \o SubSeq(s, p + 1, Len(s))

\* list.sort(key=..., reverse=True)
RECURSIVE sort_reverse(_)
sort_reverse(s) ==
    IF s = <<>> THEN <<>>
    ELSE insert_desc(sort_reverse(SubSeq(s, 1, Len(s) - 1)), s[Len(s)])

\* matching_recipes[:6]
top(s) == SubSeq(s, 1, Min(TopN, Len(s)))

\* the body of the try block
local_try(ings, st) ==
    LET all_recipes == load(st)
    IN  IF all_recipes.kind = "raised" THEN all_recipes
        ELSE LET found == scan(ingredient_list(ings), all_recipes.items, 1, <<>>)
             IN  IF found.kind = "raised" THEN found
                 ELSE List(top(sort_reverse(found.items)))

\* a slip: the handlers return an empty list
local_except_empty(r) ==
    IF r.kind = "raised" THEN List(<<>>) ELSE r

\* except FileNotFoundError / except Exception
local_except(r) ==
    IF r.kind = "raised" THEN List(get_default_recipes) ELSE r

fetch_from_local_dataset(ings, st) == local_except(local_try(ings, st))

-----------------------------------------------------------------------------
(* fetch_from_spoonacular.  The service's answer to a call is "neterr"     *)
(* (requests.get raises), "non200" (a status other than 200), "malformed"  *)
(* (status 200 with a payload that .json() or the field accesses raise on) *)
(* or "ok"; a lookup that is "ok" carries a number of hits.                *)

NoLookup == [status |-> "uncalled", hits |-> 0]
LookupAnswer(st, n) == [status |-> st, hits |-> n]

\* a slip: a detail answer other than 200 raises
format_hit_strict(resp, i, acc) ==
    CASE resp \in {"neterr", "non200"} -> Raise("RequestException")
      [] resp = "malformed" -> Raise("ValueError")
      [] OTHER -> List(Append(acc, Item("spoonacular", i)))

\* one pass of the for loop over recipes_data: the detail call of hit i
format_hit(resp, i, acc) ==
    CASE resp = "neterr" -> Raise("RequestException")
      [] resp = "malformed" -> Raise("ValueError")
      [] resp = "non200" -> List(acc)
      [] OTHER -> List(Append(acc, Item("spoonacular", i)))

RECURSIVE format_hits(_, _, _, _)
format_hits(n, dt, i, acc) ==
    IF i > n THEN List(acc)
    ELSE LET r == format_hit(dt[i], i, acc)
         IN  IF r.kind = "raised" THEN r ELSE format_hits(n, dt, i + 1, r.items)

\* the body of the try block; without a return in it the function falls
\* through to the final `return None`
spoonacular_try(lk, dt) ==
    CASE lk.status = "neterr" -> Raise("RequestException")
      [] lk.status = "non200" -> None
      [] lk.status = "malformed" -> Raise("ValueError")
      [] OTHER -> format_hits(lk.hits, dt, 1, <<>>)

\* a slip: no except clause
spoonacular_no_except(r) == r

\* except Exception: return None
spoonacular_except(r) == IF r.kind = "raised" THEN None ELSE r

fetch_from_spoonacular(key, lk, dt) ==
    IF key = "YOUR_API_KEY_HERE" THEN None
    ELSE spoonacular_except(spoonacular_try(lk, dt))

-----------------------------------------------------------------------------
(* get_recommended_recipes *)

\* a slip: random.choices, which may draw a position twice
SamplesWithRepeats(n) == [1..SampleSize -> 1..n]

\* random.sample(population, 3): three different positions, in any order
Samples(n) ==
    {s \in [1..SampleSize -> 1..n] : \A i, j \in 1..SampleSize : i # j => s[i] # s[j]}

\* a slip: the defaults also when the store holds fewer than 3 recipes
get_recommended_recipes_or_default(st, smp) ==
    LET all_recipes == load(st)
    IN  IF all_recipes.kind = "raised" \/ Len(all_recipes.items) < 3
        THEN List(get_default_recommendations)
        ELSE List([i \in 1..SampleSize |-> Item("store", smp[i])])

get_recommended_recipes(st, smp) ==
    LET all_recipes == load(st)
    IN  IF all_recipes.kind = "raised" THEN List(get_default_recommendations)
        ELSE IF Len(all_recipes.items) >= 3
             THEN List([i \in 1..SampleSize |-> Item("store", smp[i])])
             ELSE List([i \in 1..Len(all_recipes.items) |-> Item("store", i)])

-----------------------------------------------------------------------------
(* The routes *)

NoForm == [has |-> FALSE, value |-> <<>>]
Form(q) == [has |-> TRUE, value |-> q]

\* request.form.get('ingredients', '')
form_get(f) == IF f.has THEN f.value ELSE <<>>

\* a slip: `if recipes is None:`
falls_back_on_none(ext) == ext.kind = "none"

\* `if not recipes:`
falls_back(ext) == Falsy(ext)

\* search(), up to the list it hands to render_template
search(f, key, lk, dt, st) ==
    LET ings == form_get(f)
        ext == fetch_from_spoonacular(key, lk, dt)
    IN  IF ext.kind = "raised"
        THEN [external |-> ext, local |-> NotCalled, recipes |-> NotCalled,
              calls |-> <<"spoonacular">>, raised |-> TRUE]
        ELSE IF falls_back(ext)
        THEN LET loc == fetch_from_local_dataset(ings, st)
             IN  [external |-> ext, local |-> loc,
                  recipes |-> IF loc.kind = "raised" THEN NotCalled ELSE loc,
                  calls |-> <<"spoonacular", "local">>,
                  raised |-> loc.kind = "raised"]
        ELSE [external |-> ext, local |-> NotCalled, recipes |-> ext,
              calls |-> <<"spoonacular">>, raised |-> FALSE]

\* index(), up to the list it hands to render_template
index(st, smp) == get_recommended_recipes(st, smp)

-----------------------------------------------------------------------------
(* The inputs of the matcher's specification *)

Chars == {"a", "B", ",", " "}

StringsUpTo(n) == UNION {[1..k -> Chars] : k \in 0..n}

SeqsUpTo(S, n) == UNION {[1..k -> S] : k \in 0..n}

Banana == <<"b", "a", "n", "a", "n", "a">>
Oats == <<"o", "a", "t", "s">>
Milk == <<"m", "i", "l", "k">>
Honey == <<"h", "o", "n", "e", "y">>

\* "banana, oats"
BananaOats == Banana \o <<",", " ">> \o Oats

\* a recipe scoring 0, one scoring 1 and the smoothie, on "banana, oats"
ExampleStore ==
    Loaded(<< Recipe(<<Milk>>), Recipe(<<Oats, Honey>>),
              Recipe(<<Banana, Oats, Milk, Honey>>) >>)

\* stores of every kind of record, short; and longer stores of recipes
MixedStores ==
    {Loaded(rs) : rs \in SeqsUpTo({RecA, RecB, RecNoIngredients, Malformed}, MaxMixedStore)}

MatcherStores ==
    {Missing, Corrupt, ExampleStore}
        \cup MixedStores
        \cup {Loaded(rs) : rs \in SeqsUpTo({RecA, RecB}, MaxStore)}

\* "a,B", "a,a", " B, a ": two terms, a repeated term, blanks and capitals
ExampleQueries ==
    { BananaOats,
      <<"a", ",", "B">>,
      <<"a", ",", "a">>,
      <<" ", "B", ",", " ", "a", " ">> }

MatcherQueries == StringsUpTo(MaxQueryLen) \cup ExampleQueries

MatcherInit ==
    /\ apiKey = "YOUR_API_KEY_HERE"
    /\ handler = "idle"
    /\ form = NoForm
    /\ ingredients \in MatcherQueries
    /\ store \in MatcherStores
    /\ lookup = NoLookup
    /\ details = <<>>
    /\ sample = <<>>
    /\ external = NotCalled
    /\ local = NotCalled
    /\ recipes = NotCalled
    /\ calls = <<>>
    /\ raised = FALSE

\* a call of fetch_from_local_dataset
CallLocal ==
    /\ handler = "idle"
    /\ handler' = "fetch_from_local_dataset"
    /\ local' = fetch_from_local_dataset(ingredients, store)
    /\ calls' = <<"local">>
    /\ UNCHANGED <<apiKey, form, ingredients, lookup, details, store, sample,
                   external, recipes, raised>>

MatcherNext == CallLocal

MatcherSpec == MatcherInit /\ [][MatcherNext]_vars

-----------------------------------------------------------------------------
(* The inputs of the routes' specification *)

DetailFailures == {"neterr", "malformed"}

\* the answers to the detail calls of n hits: every call answered with 200
\* or another status, or the calls up to the first one that raises
DetailTraces(n) ==
    [1..n -> {"ok", "non200"}]
        \cup UNION {{Append(s, e) : s \in [1..k -> {"ok", "non200"}], e \in DetailFailures} :
                      k \in 0..(n - 1)}

\* no call without a key; the service answers an invalid key with 401
LookupAnswers(key) ==
    CASE key = "YOUR_API_KEY_HERE" -> {NoLookup}
      [] key = "invalid" -> {LookupAnswer("neterr", 0), LookupAnswer("non200", 0)}
      [] OTHER -> {LookupAnswer("neterr", 0), LookupAnswer("non200", 0),
                   LookupAnswer("malformed", 0)}
                      \cup {LookupAnswer("ok", n) : n \in 0..MaxHits}

RouterStores ==
    {Missing, Corrupt}
        \cup {Loaded(rs) : rs \in SeqsUpTo({RecA, Malformed}, MaxMixedStore)}
        \cup {Loaded([i \in 1..n |-> RecA]) : n \in 0..MaxStore}

\* "", "a", "B", "a,B"
RouterQueries == { <<>>, <<"a">>, <<"B">>, <<"a", ",", "B">> }

Forms == {NoForm} \cup {Form(q) : q \in RouterQueries}

Idle ==
    /\ handler = "idle"
    /\ form = NoForm
    /\ ingredients = <<>>
    /\ lookup = NoLookup
    /\ details = <<>>
    /\ store = Unread
    /\ sample = <<>>
    /\ external = NotCalled
    /\ local = NotCalled
    /\ recipes = NotCalled
    /\ calls = <<>>
    /\ raised = FALSE

Init ==
    /\ apiKey \in {"YOUR_API_KEY_HERE", "invalid", "valid"}
    /\ Idle

\* POST /search
Search ==
    /\ handler = "idle"
    /\ \E f \in Forms, lk \in LookupAnswers(apiKey) :
         \E dt \in DetailTraces(lk.hits) :
           \E st \in (IF falls_back(fetch_from_spoonacular(apiKey, lk, dt))
                       THEN RouterStores ELSE {Unread}) :
             LET r == search(f, apiKey, lk, dt, st)
             IN  /\ handler' = "search"
                 /\ form' = f
                 /\ ingredients' = form_get(f)
                 /\ lookup' = lk
                 /\ details' = dt
                 /\ store' = st
                 /\ external' = r.external
                 /\ local' = r.local
                 /\ recipes' = r.recipes
                 /\ calls' = r.calls
                 /\ raised' = r.raised
    /\ UNCHANGED <<apiKey, sample>>

\* GET /
Index ==
    /\ handler = "idle"
    /\ \E st \in RouterStores :
         \E smp \in (IF st.status = "loaded" /\ Len(st.records) >= SampleSize
                      THEN Samples(Len(st.records)) ELSE {<<>>}) :
           /\ handler' = "index"
           /\ store' = st
           /\ sample' = smp
           /\ recipes' = index(st, smp)
           /\ calls' = <<"recommend">>
    /\ UNCHANGED <<apiKey, form, ingredients, lookup, details, external, local, raised>>

\* the response is sent; nothing of the request is kept
Respond ==
    /\ handler \in {"index", "search"}
    /\ handler' = "idle"
    /\ form' = NoForm
    /\ ingredients' = <<>>
    /\ lookup' = NoLookup
    /\ details' = <<>>
    /\ store' = Unread
    /\ sample' = <<>>
    /\ external' = NotCalled
    /\ local' = NotCalled
    /\ recipes' = NotCalled
    /\ calls' = <<>>
    /\ raised' = FALSE
    /\ UNCHANGED apiKey

Next == Search \/ Index \/ Respond

Spec == Init /\ [][Next]_vars

-----------------------------------------------------------------------------
(* What the specification says of the matcher, stated on the request's     *)
(* string and the store's records.                                         *)

\* the store loads and every record of it is a recipe
Readable(st) ==
    st.status = "loaded" /\ \A i \in 1..Len(st.records) : st.records[i].form = "recipe"

CommaAt(s) == {i \in 1..Len(s) : s[i] = ","}

NumTerms(s) == Cardinality(CommaAt(s)) + 1

\* the position of the k-th comma; 0 before the first, Len(s) + 1 after the last
NthComma(s, k) ==
    IF k = 0 THEN 0
    ELSE IF k > Cardinality(CommaAt(s)) THEN Len(s) + 1
    ELSE CHOOSE p \in CommaAt(s) : Cardinality({q \in CommaAt(s) : q <= p}) = k

\* the text between two neighbouring commas, without the blanks around it
Trimmed(s) ==
    LET solid == {i \in 1..Len(s) : s[i] # " "}
    IN  IF solid = {} THEN <<>>
        ELSE SubSeq(s, CHOOSE i \in solid : \A j \in solid : i <= j,
                       CHOOSE i \in solid : \A j \in solid : i >= j)

Term(s, k) ==
    LET piece == SubSeq(s, NthComma(s, k - 1) + 1, NthComma(s, k) - 1)
        t == Trimmed(piece)
    IN  [i \in 1..Len(t) |-> LowerChar(t[i])]

\* t is a piece of consecutive characters of r
Occurs(t, r) == \E i \in 0..Len(r) : \E j \in i..Len(r) : SubSeq(r, i + 1, j) = t

\* the number of query terms found in at least one ingredient of the recipe
ExpectedScore(s, rec) ==
    Cardinality({k \in 1..NumTerms(s) :
        \E j \in 1..Len(rec.ingredients) :
            Occurs(Term(s, k), [i \in 1..Len(rec.ingredients[j]) |->
                                   LowerChar(rec.ingredients[j][i])])})

\* the score the specification gives each record of the store
Scores(s, st) == [i \in 1..Len(st.records) |-> ExpectedScore(s, st.records[i])]

MatcherDone == handler = "fetch_from_local_dataset"

\* C1: the matcher returns at most 6 records, and on a readable store every
\* returned record carries a match_score of at least 1: no record of the
\* store that no query term matches is returned.
C1_AtMostSixAllScored ==
    MatcherDone =>
        /\ local.kind = "list"
        /\ Len(local.items) <= 6
        /\ Readable(store) =>
              LET sc == Scores(ingredients, store)
              IN  \A i \in 1..Len(local.items) :
                      /\ local.items[i].scored
                      /\ local.items[i].match_score >= 1
                      /\ local.items[i].origin = "store"
                      /\ sc[local.items[i].idx] >= 1

\* the cap of 6 cuts a seventh candidate off, and a record without a match is dropped
C1_Witness ==
    /\ MatcherDone
    /\ Readable(store)
    /\ Len(local.items) = 6
    /\ LET sc == Scores(ingredients, store)
       IN  /\ Cardinality({i \in DOMAIN sc : sc[i] >= 1}) > 6
           /\ \E i \in DOMAIN sc : sc[i] = 0

\* C2: the returned list is in non-increasing order of match_score, records
\* of equal score are in the store's order, and on a readable store it is
\* the first 6 of the candidates so ordered: it has min(6, candidates)
\* records, and a candidate left out ranks behind every record returned.
C2_SortedStableTopSix ==
    MatcherDone =>
        /\ \A i, j \in 1..Len(local.items) :
              i < j =>
                /\ sort_key(local.items[i]) >= sort_key(local.items[j])
                /\ sort_key(local.items[i]) = sort_key(local.items[j])
                      => local.items[i].idx < local.items[j].idx
        /\ Readable(store) =>
              LET sc == Scores(ingredients, store)
                  cand == {i \in DOMAIN sc : sc[i] >= 1}
                  got == {local.items[i].idx : i \in 1..Len(local.items)}
              IN  /\ got \subseteq cand
                  /\ Len(local.items) = Min(6, Cardinality(cand))
                  /\ Cardinality(got) = Len(local.items)
                  /\ \A c \in cand \ got : \A g \in got :
                        sc[c] < sc[g] \/ (sc[c] = sc[g] /\ g < c)

\* a later record outranks an earlier one, two records tie, and a candidate is cut
C2_Witness ==
    /\ MatcherDone
    /\ Readable(store)
    /\ Len(store.records) > Len(local.items)
    /\ Len(local.items) = 6
    /\ \E i, j \in 1..Len(local.items) :
          i < j /\ local.items[i].idx > local.items[j].idx
    /\ \E i, j \in 1..Len(local.items) :
          i < j /\ local.items[i].match_score = local.items[j].match_score
    /\ LET sc == Scores(ingredients, store)
       IN  \A i \in DOMAIN sc : sc[i] >= 1

\* C3: the match_score of a returned recipe is the number of query terms
\* (the pieces between commas, trimmed and lowercased, duplicates and empty
\* terms counted) that occur in at least one of its lowercased ingredients;
\* "banana, oats" scores the recipe of banana, oats, milk and honey 2 and
\* ranks it first, above the recipe scoring 1, and drops the one scoring 0.
C3_ScoreCountsTermsOnce ==
    MatcherDone =>
        /\ Readable(store) =>
              LET sc == Scores(ingredients, store)
              IN  \A i \in 1..Len(local.items) :
                      local.items[i].match_score = sc[local.items[i].idx]
        /\ (ingredients = BananaOats /\ store = ExampleStore)
              => local.items = << Scored(3, 2), Scored(2, 1) >>

\* the example of the specification has been computed
C3_Witness ==
    /\ MatcherDone
    /\ ingredients = BananaOats
    /\ store = ExampleStore
    /\ local.items[1].match_score = 2

-----------------------------------------------------------------------------
(* What the specification says of the routes *)

SearchDone == handler = "search"
IndexDone == handler = "index"

IsDefaultTriple(v) ==
    /\ v.kind = "list"
    /\ Len(v.items) = 3
    /\ \A i \in 1..3 : v.items[i].origin = "default_rec" /\ v.items[i].idx = i

KeyYieldsNothing == apiKey \in {"YOUR_API_KEY_HERE", "invalid"}

\* C5 as the specification states it: without a usable key every search
\* renders a non-empty list, whatever the ingredients and the store.
C5_Original ==
    (SearchDone /\ KeyYieldsNothing) =>
        recipes.kind = "list" /\ recipes.items # <<>>

\* C5, amended: without a usable key the search renders the list of the
\* local tier, and that list is empty exactly when the store is readable
\* and no query term occurs in any ingredient of any of its recipes.
C5_LocalTierRenders ==
    (SearchDone /\ KeyYieldsNothing) =>
        /\ external = None
        /\ calls = <<"spoonacular", "local">>
        /\ recipes.kind = "list"
        /\ recipes = local
        /\ recipes.items = <<>>
              <=> (Readable(store)
                     /\ \A i \in 1..Len(store.records) :
                           ExpectedScore(ingredients, store.records[i]) = 0)

\* an invalid key, a store with recipes, none of which matches: nothing to show
C5_Witness ==
    /\ SearchDone
    /\ apiKey = "invalid"
    /\ store.status = "loaded"
    /\ store.records # <<>>
    /\ recipes = List(<<>>)

\* C6: no exception leaves search: fetch_from_spoonacular returns None or a
\* list, fetch_from_local_dataset, when called, returns a list, and a list
\* reaches render_template, whatever the form, the service and the store.
C6_SearchNeverRaises ==
    SearchDone =>
        /\ raised = FALSE
        /\ external.kind \in {"none", "list"}
        /\ local.kind \in {"uncalled", "list"}
        /\ recipes.kind = "list"

\* no ingredients field, a detail call that raises, a malformed record in the store
C6_Witness ==
    /\ SearchDone
    /\ ~form.has
    /\ details # <<>>
    /\ details[Len(details)] \in DetailFailures
    /\ store.status = "loaded"
    /\ \E i \in 1..Len(store.records) : store.records[i].form = "malformed"
    /\ recipes.kind = "list"

AnyFailure ==
    \/ lookup.status \in {"neterr", "non200", "malformed"}
    \/ \E i \in 1..Len(details) : details[i] # "ok"

OkHits == {i \in 1..Len(details) : details[i] = "ok"}

C8_AtMostSixRendered ==
    SearchDone => (recipes.kind = "list" /\ Len(recipes.items) <= 6)

C10_Original ==
    SearchDone =>
        /\ calls[1] = "spoonacular"
        /\ (local # NotCalled) <=> (external = None)
        /\ external.kind = "list" => (recipes = external /\ store = Unread)

\* C10, amended: the external client is called first; the local tier is
\* called exactly when the external client returned None or an empty
\* list, and then its list is rendered; a non-empty list of the external
\* client is rendered without reading the store.
C10_FallsBackOnNoneOrEmpty ==
    SearchDone =>
        /\ calls[1] = "spoonacular"
        /\ (local # NotCalled) <=> (external = None \/ external = List(<<>>))
        /\ (local # NotCalled) <=> (calls = <<"spoonacular", "local">>)
        /\ (local # NotCalled) => recipes = local
        /\ (external.kind = "list" /\ external.items # <<>>) =>
              (recipes = external /\ store = Unread /\ calls = <<"spoonacular">>)

\* the lookup succeeds with no usable hit, and the local tier is asked
C10_Witness ==
    /\ SearchDone
    /\ lookup.status = "ok"
    /\ external = List(<<>>)
    /\ calls = <<"spoonacular", "local">>
    /\ recipes = local

====
